---- MODULE Spec2Model ----
(***************************************************************************)
(* Moderator approval -> reward transfer flow of the FlexAI marketplace    *)
(* front end (src/src/pages/ModeratorDashboard.tsx, second component       *)
(* definition, lines 405-939) together with the TransactionModal it        *)
(* drives (src/src/components/Card.tsx) and the admin REST client          *)
(* (src/unnamed/part_003).                                                 *)
(*                                                                         *)
(* One invocation of the async function handleApprove is a "flow".  A flow *)
(* runs atomically between two awaits; each await is a pc location and the *)
(* answer of the awaited collaborator (RPC node, wallet, REST backend) is  *)
(* the input of the action that resumes the flow.  React state lives in    *)
(* processingId / transactionModal / pendingSubmissions; `view` is the     *)
(* state as of the last render, i.e. what the JSX closures (button         *)
(* `disabled`, onClose, handleApprove's pendingSubmissions) see.           *)
(*                                                                         *)
(* The network is the ledger's fate of each sent transaction (chain), the  *)
(* payer's balance, and whether the node answers confirmTransaction; the   *)
(* backend is the record db[s] that POST /api/admin/approve updates.       *)
(* handleReject and the wallet connect/disconnect path are not modelled.   *)
(***************************************************************************)
EXTENDS Integers, FiniteSets, Sequences, TLC

\* ---------------------------------------------------------------- bounds
MaxFlows == 2          \* handleApprove invocations in one behaviour
MaxCreates == 2        \* challengesApi.create requests in one behaviour
AmountSpread == 25     \* reward amounts tried on each side of 0, 0.01 and 0.05 SOL

\* ------------------------------------------------------------- constants
LAMPORTS_PER_SOL == 1000000000
NetworkFee == 5000     \* lamports charged by the network per signature
SubLamport == 10       \* amounts are integers in 1/SubLamport lamports

NoSig == 0             \* transaction.signature undefined
Null == 0              \* processingId null
Undefined == <<"undefined">>   \* transaction.error undefined

\* ------------------------------------------------------------- scenario
\* The moderator wallet (useWallet().publicKey.toString()).
Moderator == "ModKey"

\* Pending submissions served by the backend: id -> contributor_address,
\* challenge?.reward_amount (0 stands for a submission whose challenge
\* could not be loaded, see loadPendingSubmissions).
Submissions == 1..3

contributor_address(s) ==
    CASE s = 1 -> "Ctb1"
      [] s = 2 -> "Ctb2"
      [] OTHER -> "ModKey"

\* 0.05 SOL, in 1/SubLamport lamports
Sol005 == 5 * (LAMPORTS_PER_SOL \div 100) * SubLamport

\* 0.01 SOL, the least reward CreateChallenge accepts.
Sol001 == Sol005 \div 5

challenge_reward_amount(s) ==
    CASE s = 1 -> Sol005
      [] OTHER -> 0

\* The moderator starts with enough for one 0.05 SOL reward and two fees.
InitBalance == (Sol005 \div SubLamport) + 2 * NetworkFee

\* ------------------------------------------------------ pure operators
\* String.prototype.toLowerCase on the addresses in use.
toLowerCase(a) ==
    CASE a = "ModKey" -> "modkey"
      [] a = "Ctb1"   -> "ctb1"
      [] a = "Ctb2"   -> "ctb2"
      [] OTHER        -> a

\* String.prototype.includes on messages held as sequences of words.
includes(msg, needle) ==
    \E i \in 0..(Len(msg) - Len(needle)) :
        \A j \in 1..Len(needle) : msg[i + j] = needle[j]

UnknownError == <<"Unknown", "error">>
CancelledText == <<"Transaction", "was", "cancelled.", "Please", "try", "again">>
InsufficientText == <<"Insufficient", "SOL", "balance.">>

\* The message taken as it is, without the `|| 'Unknown error'` fallback.
errorMsg_noFallback(message) == message

\* error.message || 'Unknown error'
errorMsg(message) == IF message = <<>> THEN UnknownError ELSE message

\* The catch block looking for 'user rejected' in lower case: the wallet's
\* message is not recognised.
errorText_lowerCaseNeedle(message) ==
    IF includes(errorMsg(message), <<"user", "rejected">>) THEN CancelledText
    ELSE IF includes(errorMsg(message), <<"insufficient", "funds">>) THEN InsufficientText
    ELSE errorMsg(message)

\* The text put in transaction.error by the catch block.
errorText(message) ==
    IF includes(errorMsg(message), <<"User", "rejected">>) THEN CancelledText
    ELSE IF includes(errorMsg(message), <<"insufficient", "funds">>) THEN InsufficientText
    ELSE errorMsg(message)

\* Math.ceil in the place of Math.floor.
rewardLamports_roundsUp(amount) == (amount + SubLamport - 1) \div SubLamport

\* Math.floor(rewardAmount * LAMPORTS_PER_SOL)
rewardLamports(amount) == amount \div SubLamport

\* Messages the collaborators reject with.
UserRejectedMsg == <<"User", "rejected", "the", "request.">>
WalletErrorMsg == <<"Wallet", "not", "connected">>
BlockhashErrorMsg == <<"failed", "to", "get", "recent", "blockhash">>
PreflightFundsMsg == <<"Transaction", "simulation", "failed:", "insufficient", "funds">>
PreflightLamportsMsg == <<"Transfer:", "insufficient", "lamports">>
SendErrorMsg == <<>>
ExpiredMsg == <<"block", "height", "exceeded">>

VARIABLES
    pendingSubmissions,   \* useState: ids in the pending list
    processingId,         \* useState: number | null
    transactionModal,     \* useState: {isOpen, transaction{...}}
    view,                 \* the three states above as of the last render
    reloadQueued,         \* a loadPendingSubmissions run is scheduled
    alertMsg,             \* last window.alert shown by handleApprove
    consoleError,         \* last console.error('Transaction error:', error)
    flows,                \* the handleApprove invocations
    nflows,               \* number of invocations so far
    chain,                \* network: what happened to flow f's transaction
    balance,              \* network: moderator's lamports
    confirmAnswers,       \* network: the node answers confirmTransaction
    db,                   \* backend: submission id -> status, reward_tx_hash
    formData,             \* CreateChallenge useState: the form's fields
    loading,              \* CreateChallenge useState: a create is under way
    formView,             \* formData and loading as of the last render
    createCalls,          \* the challengesApi.create requests made so far
    calc                  \* one evaluation of the lamports conversion

\* The state of the ModeratorDashboard page, its network and its backend.
dashboardVars == <<pendingSubmissions, processingId, transactionModal, view, reloadQueued,
                   consoleError, flows, nflows, chain, balance, confirmAnswers, db>>

\* The state of the CreateChallenge page.
createVars == <<formData, loading, formView, createCalls>>

vars == <<pendingSubmissions, processingId, transactionModal, view, reloadQueued,
          alertMsg, consoleError, flows, nflows, chain, balance, confirmAnswers, db,
          formData, loading, formView, createCalls, calc>>

Flows == 1..MaxFlows

InitialTransaction ==
    [signature |-> NoSig, fromAddress |-> "", toAddress |-> "", amount |-> 0,
     status |-> "pending", error |-> Undefined]

\* The locals of one handleApprove invocation.  A finished invocation keeps
\* only what outlives it: the submission it was for and the signature that
\* went to the network.
IdleFlow ==
    [pc |-> "idle", submissionId |-> Null, rewardAmount |-> 0, lamports |-> 0,
     signature |-> NoSig]

\* The collaborator calls a flow has issued by the time it waits at pc.
callsMade(pc) ==
    CASE pc = "getLatestBlockhash"  -> {"getLatestBlockhash"}
      [] pc = "signTransaction"     -> {"getLatestBlockhash", "signTransaction"}
      [] pc = "sendTransaction"     -> {"getLatestBlockhash", "signTransaction",
                                        "sendTransaction"}
      [] pc = "confirmTransaction"  -> {"getLatestBlockhash", "signTransaction",
                                        "sendTransaction", "confirmTransaction"}
      [] pc = "approve"             -> {"getLatestBlockhash", "signTransaction",
                                        "sendTransaction", "confirmTransaction",
                                        "approve"}
      [] OTHER                      -> {}

\* useState({title: '', ..., reward_amount: 0.05, ..., deadline: ''}); the
\* other text fields (description, company_name, baseline_model_hash) are
\* handled exactly as title is.
InitialFormData == [title |-> "", reward_amount |-> Sol005, deadline |-> ""]

\* No conversion evaluated yet.
NoCalc == [rewardAmount |-> 0, computed |-> FALSE, rewardLamports |-> 0]

CurrentState ==
    [pendingSubmissions |-> pendingSubmissions, processingId |-> processingId,
     transactionModal |-> transactionModal]

InitPages ==
    /\ pendingSubmissions = {}
    /\ processingId = Null
    /\ transactionModal = [isOpen |-> FALSE, transaction |-> InitialTransaction]
    /\ view = [pendingSubmissions |-> {}, processingId |-> Null,
               transactionModal |-> [isOpen |-> FALSE, transaction |-> InitialTransaction]]
    /\ reloadQueued = TRUE
    /\ alertMsg = "none"
    /\ consoleError = Undefined
    /\ flows = [f \in Flows |-> IdleFlow]
    /\ nflows = 0
    /\ chain = [f \in Flows |-> "none"]
    /\ balance = InitBalance
    /\ confirmAnswers \in BOOLEAN
    /\ db = [s \in Submissions |-> [status |-> "pending", reward_tx_hash |-> NoSig]]
    /\ formData = InitialFormData
    /\ loading = FALSE
    /\ formView = [formData |-> InitialFormData, loading |-> FALSE]
    /\ createCalls = << >>

Init ==
    /\ InitPages
    /\ calc = NoCalc

\* ------------------------------------------------------------ rendering
\* disabled={processingId === submission.id ||
\*           (publicKey && contributor_address.toLowerCase() === publicKey...)}
\* The wallet-separation test with the lower-casing left out on one side.
ownSubmission_oneSideLowerCase(s) == toLowerCase(contributor_address(s)) = Moderator

ownSubmission(s) == toLowerCase(contributor_address(s)) = toLowerCase(Moderator)

approveDisabled(s) == view.processingId = s \/ ownSubmission(s)

\* The Approve button of submission s is on screen and can be clicked: the
\* card is rendered from pendingSubmissions, and the open TransactionModal is
\* a fixed inset-0 overlay above the page.
approveClickable(s) ==
    /\ s \in view.pendingSubmissions
    /\ ~view.transactionModal.isOpen
    /\ ~approveDisabled(s)

\* Every state update has been rendered.  React schedules the render as soon
\* as a continuation has run, so the next promise settles after it; only a
\* user event that is already queued (a click) can be handled in between.
rendered == view = CurrentState

\* window.alert blocks the page's thread until the dialog is dismissed:
\* nothing else runs while alertMsg is set.
noAlert == alertMsg = "none"

DismissAlert ==
    /\ alertMsg # "none"
    /\ alertMsg' = "none"
    /\ UNCHANGED <<pendingSubmissions, processingId, transactionModal, view,
                   reloadQueued, consoleError, flows, nflows, chain, balance,
                   confirmAnswers, db>>
    /\ UNCHANGED <<createVars, calc>>

\* React re-renders: the closures see the current state.
Render ==
    /\ noAlert
    /\ view # CurrentState
    /\ view' = CurrentState
    /\ UNCHANGED <<pendingSubmissions, processingId, transactionModal, reloadQueued,
                   alertMsg, consoleError, flows, nflows, chain, balance, confirmAnswers, db>>
    /\ UNCHANGED <<createVars, calc>>

\* loadPendingSubmissions: submissionsApi.list({status_filter: 'pending'})
LoadPendingSubmissions ==
    /\ reloadQueued
    /\ noAlert
    /\ rendered
    /\ reloadQueued' = FALSE
    /\ pendingSubmissions' = {s \in Submissions : db[s].status = "pending"}
    /\ UNCHANGED <<processingId, transactionModal, view, alertMsg, consoleError, flows, nflows,
                   chain, balance, confirmAnswers, db>>
    /\ UNCHANGED <<createVars, calc>>

OwnSubmissionAlert == "Cannot approve your own submission"

\* ------------------------------------------------------- handleApprove
\* The synchronous part of handleApprove(submissionId), up to the first
\* await (connection.getLatestBlockhash).
handleApprove(s) ==
    IF s \notin view.pendingSubmissions
    THEN /\ alertMsg' = "Submission not found"
         /\ UNCHANGED <<processingId, transactionModal, flows, nflows>>
    ELSE IF ownSubmission(s)
    THEN /\ alertMsg' = OwnSubmissionAlert
         /\ UNCHANGED <<processingId, transactionModal, flows, nflows>>
    ELSE /\ nflows < MaxFlows
         /\ nflows' = nflows + 1
         /\ transactionModal' =
                [isOpen |-> TRUE,
                 transaction |->
                    [signature |-> NoSig,
                     fromAddress |-> Moderator,
                     toAddress |-> contributor_address(s),
                     amount |-> challenge_reward_amount(s),
                     status |-> "signing",
                     error |-> Undefined]]
         /\ processingId' = s
         /\ flows' = [flows EXCEPT ![nflows + 1] =
                [pc |-> "getLatestBlockhash",
                 submissionId |-> s,
                 rewardAmount |-> challenge_reward_amount(s),
                 lamports |-> rewardLamports(challenge_reward_amount(s)),
                 signature |-> NoSig]]
         /\ UNCHANGED alertMsg
\* onClick={() => handleApprove(submission.id)}; a click is a discrete
\* event, React renders before the next event is handled.
ClickApprove(s) ==
    /\ noAlert
    /\ approveClickable(s)
    /\ handleApprove(s)
    /\ view' = [pendingSubmissions |-> pendingSubmissions,
                processingId |-> processingId',
                transactionModal |-> transactionModal']
    /\ UNCHANGED <<pendingSubmissions, reloadQueued, consoleError, chain, balance,
                   confirmAnswers, db>>
    /\ UNCHANGED <<createVars, calc>>

\* The click handler runs although the button is rendered disabled (or for
\* an id that has no card): handleApprove is reached without the guard of
\* the `disabled` attribute.  The page is still under the modal's overlay.
CallApprove(s) ==
    /\ noAlert
    /\ ~view.transactionModal.isOpen
    /\ handleApprove(s)
    /\ view' = [pendingSubmissions |-> pendingSubmissions,
                processingId |-> processingId',
                transactionModal |-> transactionModal']
    /\ UNCHANGED <<pendingSubmissions, reloadQueued, consoleError, chain, balance,
                   confirmAnswers, db>>
    /\ UNCHANGED <<createVars, calc>>

\* catch (error) {...} finally { setProcessingId(null) }
catch(f, message) ==
    /\ transactionModal' =
           [transactionModal EXCEPT !.transaction.status = "failed",
                                    !.transaction.error = errorText(message)]
    /\ processingId' = Null
    /\ consoleError' = message
    /\ flows' = [flows EXCEPT ![f].pc = "done"]

\* getLatestBlockhash in a try/catch of its own that logs the error and
\* goes on to build and sign the transaction.
GetLatestBlockhashReturns_logsAndGoesOn(f) ==
    /\ flows[f].pc = "getLatestBlockhash"
    /\ noAlert
    /\ rendered
    /\ flows' = [flows EXCEPT ![f].pc = "signTransaction"]
    /\ \/ UNCHANGED consoleError
       \/ consoleError' = BlockhashErrorMsg
    /\ UNCHANGED <<processingId, transactionModal>>
    /\ UNCHANGED <<pendingSubmissions, view, reloadQueued, alertMsg, nflows, chain,
                   balance, confirmAnswers, db>>
    /\ UNCHANGED <<createVars, calc>>

\* await connection.getLatestBlockhash('confirmed') returns or throws;
\* on return the transaction is built and signTransaction is called.
GetLatestBlockhashReturns(f) ==
    /\ flows[f].pc = "getLatestBlockhash"
    /\ noAlert
    /\ rendered
    /\ \/ /\ flows' = [flows EXCEPT ![f].pc = "signTransaction"]
          /\ UNCHANGED <<processingId, transactionModal, consoleError>>
       \/ catch(f, BlockhashErrorMsg)
    /\ UNCHANGED <<pendingSubmissions, view, reloadQueued, alertMsg, nflows, chain,
                   balance, confirmAnswers, db>>
    /\ UNCHANGED <<createVars, calc>>

\* await signTransaction(transaction) returns or throws; on return the
\* status becomes 'sending' and sendTransaction is called.
SignTransactionReturns(f) ==
    /\ flows[f].pc = "signTransaction"
    /\ noAlert
    /\ rendered
    /\ \/ /\ flows' = [flows EXCEPT ![f].pc = "sendTransaction"]
          /\ transactionModal' = [transactionModal EXCEPT !.transaction.status = "sending"]
          /\ UNCHANGED <<processingId, consoleError>>
       \/ \E message \in {UserRejectedMsg, WalletErrorMsg} : catch(f, message)
    /\ UNCHANGED <<pendingSubmissions, view, reloadQueued, alertMsg, nflows, chain,
                   balance, confirmAnswers, db>>
    /\ UNCHANGED <<createVars, calc>>

\* await sendTransaction(signed, connection, {skipPreflight: false,
\* maxRetries: 3}): the node simulates the transfer against the payer's
\* balance and either accepts it and returns its signature, or rejects.
SendTransactionReturns(f) ==
    /\ flows[f].pc = "sendTransaction"
    /\ noAlert
    /\ rendered
    /\ \/ /\ balance >= flows[f].lamports + NetworkFee
          /\ flows' = [flows EXCEPT ![f].pc = "confirmTransaction",
                                    ![f].signature = f]
          /\ chain' = [chain EXCEPT ![f] = "submitted"]
          /\ transactionModal' = [transactionModal EXCEPT
                                    !.transaction.signature = f,
                                    !.transaction.status = "confirming"]
          /\ UNCHANGED <<processingId, consoleError>>
       \/ /\ balance < flows[f].lamports + NetworkFee
          /\ \E message \in {PreflightFundsMsg, PreflightLamportsMsg} : catch(f, message)
          /\ UNCHANGED chain
       \/ /\ catch(f, SendErrorMsg)
          /\ UNCHANGED chain
    /\ UNCHANGED <<pendingSubmissions, view, reloadQueued, alertMsg, nflows,
                   balance, confirmAnswers, db>>
    /\ UNCHANGED <<createVars, calc>>

\* The network processes a submitted transaction: it executes and succeeds
\* (lamports and fee debited) or executes and fails on-chain (fee debited).
\* A transaction that is never included stays "submitted".
NetworkProcesses(f) ==
    /\ noAlert
    /\ chain[f] = "submitted"
    /\ \/ /\ balance >= flows[f].lamports + NetworkFee
          /\ chain' = [chain EXCEPT ![f] = "executed"]
          /\ balance' = balance - flows[f].lamports - NetworkFee
       \/ /\ balance >= NetworkFee
          /\ chain' = [chain EXCEPT ![f] = "executed_err"]
          /\ balance' = balance - NetworkFee
    /\ UNCHANGED <<pendingSubmissions, processingId, transactionModal, view,
                   reloadQueued, alertMsg, consoleError, flows, nflows, confirmAnswers, db>>
    /\ UNCHANGED <<createVars, calc>>

\* What confirmTransaction's promise does, given the network's state:
\* "ok" resolves with value.err = null, "err" resolves with value.err set,
\* "throws" rejects (blockhash expired before the node saw the transaction
\* confirmed, RPC failure).
confirmResults(f) ==
    CASE chain[f] = "executed"     -> {"ok", "throws"}
      [] chain[f] = "executed_err" -> {"err", "throws"}
      [] OTHER                     -> {"throws"}

\* await connection.confirmTransaction({signature, blockhash,
\* lastValidBlockHeight}, 'confirmed'): the resolved value is not looked at.
\* On return the status becomes 'confirmed' and adminApi.approve is called.
ConfirmTransactionReturns(f) ==
    /\ flows[f].pc = "confirmTransaction"
    /\ noAlert
    /\ rendered
    /\ confirmAnswers
    /\ \E r \in confirmResults(f) :
          IF r = "throws"
          THEN catch(f, ExpiredMsg)
          ELSE /\ flows' = [flows EXCEPT ![f].pc = "approve"]
               /\ transactionModal' = [transactionModal EXCEPT
                                         !.transaction.status = "confirmed"]
               /\ UNCHANGED <<processingId, consoleError>>
    /\ UNCHANGED <<pendingSubmissions, view, reloadQueued, alertMsg, nflows, chain,
                   balance, confirmAnswers, db>>
    /\ UNCHANGED <<createVars, calc>>

\* The database update without a try/catch of its own: its failure reaches
\* the catch block of the transfer.
ApproveReturns_failureReachesCatch(f) ==
    /\ flows[f].pc = "approve"
    /\ noAlert
    /\ rendered
    /\ \/ /\ db' = [db EXCEPT ![flows[f].submissionId] =
                       [status |-> "approved", reward_tx_hash |-> flows[f].signature]]
          /\ reloadQueued' = TRUE
          /\ processingId' = Null
          /\ flows' = [flows EXCEPT ![f].pc = "done"]
          /\ UNCHANGED <<transactionModal, consoleError>>
       \/ /\ catch(f, <<"Failed", "to", "approve", "submission">>)
          /\ UNCHANGED <<db, reloadQueued>>
    /\ UNCHANGED <<pendingSubmissions, view, alertMsg, nflows,
                   chain, balance, confirmAnswers>>
    /\ UNCHANGED <<createVars, calc>>

\* await adminApi.approve(submissionId, moderatorAddress, signature): POST
\* /api/admin/approve succeeds and the backend stores the hash, or throws
\* and the error is only logged.  Then the reload timer is set and the
\* finally block clears processingId.
ApproveReturns(f) ==
    /\ flows[f].pc = "approve"
    /\ noAlert
    /\ rendered
    /\ \/ db' = [db EXCEPT ![flows[f].submissionId] =
                    [status |-> "approved", reward_tx_hash |-> flows[f].signature]]
       \/ UNCHANGED db
    /\ reloadQueued' = TRUE
    /\ processingId' = Null
    /\ flows' = [flows EXCEPT ![f].pc = "done"]
    /\ UNCHANGED <<pendingSubmissions, transactionModal, view, alertMsg, consoleError, nflows,
                   chain, balance, confirmAnswers>>
    /\ UNCHANGED <<createVars, calc>>

\* An onClose that also abandons the approval in progress: the flows that
\* are waiting for a collaborator are dropped.
CloseModal_abandonsFlows ==
    /\ noAlert
    /\ view.transactionModal.isOpen
    /\ transactionModal' = [view.transactionModal EXCEPT !.isOpen = FALSE]
    /\ reloadQueued' = (reloadQueued \/ view.transactionModal.transaction.status = "confirmed")
    /\ view' = [pendingSubmissions |-> pendingSubmissions,
                processingId |-> processingId,
                transactionModal |-> transactionModal']
    /\ flows' = [f \in Flows |->
                    IF flows[f].pc \in {"idle", "done"} THEN flows[f]
                    ELSE [flows[f] EXCEPT !.pc = "done", !.signature = NoSig]]
    /\ UNCHANGED <<pendingSubmissions, processingId, alertMsg, consoleError, nflows, chain,
                   balance, confirmAnswers, db>>
    /\ UNCHANGED <<createVars, calc>>

\* TransactionModal onClose: setTransactionModal({...transactionModal,
\* isOpen: false}) with the transactionModal of the last render, and a
\* reload when that one shows 'confirmed'.
CloseModal ==
    /\ noAlert
    /\ view.transactionModal.isOpen
    /\ transactionModal' = [view.transactionModal EXCEPT !.isOpen = FALSE]
    /\ reloadQueued' = (reloadQueued \/ view.transactionModal.transaction.status = "confirmed")
    /\ view' = [pendingSubmissions |-> pendingSubmissions,
                processingId |-> processingId,
                transactionModal |-> transactionModal']
    /\ UNCHANGED <<pendingSubmissions, processingId, alertMsg, consoleError, flows, nflows, chain,
                   balance, confirmAnswers, db>>
    /\ UNCHANGED <<createVars, calc>>

FlowStep(f) ==
    \/ GetLatestBlockhashReturns(f)
    \/ SignTransactionReturns(f)
    \/ SendTransactionReturns(f)
    \/ ConfirmTransactionReturns(f)
    \/ ApproveReturns(f)

Next ==
    \/ Render
    \/ LoadPendingSubmissions
    \/ CloseModal
    \/ \E s \in Submissions : ClickApprove(s)
    \/ \E f \in Flows : GetLatestBlockhashReturns(f)
    \/ \E f \in Flows : SignTransactionReturns(f)
    \/ \E f \in Flows : SendTransactionReturns(f)
    \/ \E f \in Flows : NetworkProcesses(f)
    \/ \E f \in Flows : ConfirmTransactionReturns(f)
    \/ \E f \in Flows : ApproveReturns(f)

Spec == Init /\ [][Next]_vars

\* The page driven by clicks that bypass the buttons' `disabled` attribute.
NextCall ==
    \/ Next
    \/ \E s \in Submissions : CallApprove(s)
    \/ DismissAlert

SpecCall == Init /\ [][NextCall]_vars

\* The event loop runs every continuation whose promise has settled and
\* every scheduled render or reload; the collaborators answer, except that
\* the RPC node answers confirmTransaction only when confirmAnswers.
FairSpec ==
    /\ Spec
    /\ WF_vars(Render)
    /\ WF_vars(LoadPendingSubmissions)
    /\ \A f \in Flows : WF_vars(FlowStep(f))
    /\ \A f \in Flows : WF_vars(NetworkProcesses(f))

\* ------------------------------------------------------ CreateChallenge
\* What an input element hands to handleChange as e.target.value: a text
\* that is not a number, or the decimal text of the amount n.
TextValue(t) == [kind |-> "text", text |-> t, n |-> 0]

NumberValue(n) == [kind |-> "num", text |-> "", n |-> n]

\* The texts typed into the reward_amount field.
RewardInputs ==
    {TextValue(""), TextValue("."), TextValue("abc")}
       \cup {NumberValue(n) : n \in {0 - Sol001, 0, 1, Sol001 - 1, Sol001, 3 * Sol001,
                                     Sol005, Sol005 + 1, 2 * Sol005}}

TitleInputs == {"", " ", "Spam filter"}

DeadlineInputs == {"", "2026-12-31T00:00"}

\* parseFloat(value): the number, or NaN for a text without one.
parseFloat(value) ==
    [isNaN |-> value.kind # "num", n |-> IF value.kind = "num" THEN value.n ELSE 0]

\* String.prototype.trim on the titles used here.
trim(t) == IF t = " " THEN "" ELSE t

\* handleChange for name === 'reward_amount': the value stored in formData,
\* or "ignored" when the handler returns without setFormData.
processedReward(value) ==
    IF value.kind = "text" /\ value.text \in {"", "."}
    THEN [ignored |-> FALSE, n |-> Sol005]
    ELSE IF parseFloat(value).isNaN
    THEN [ignored |-> TRUE, n |-> 0]
    ELSE LET numValue == parseFloat(value).n
         IN  IF numValue > Sol005 THEN [ignored |-> FALSE, n |-> Sol005]
             ELSE IF numValue < Sol001 /\ numValue > 0
             THEN [ignored |-> FALSE, n |-> Sol001]
             ELSE [ignored |-> FALSE, n |-> numValue]

\* The page is mounted until a create succeeded and navigate('/moderator')
\* ran.
onCreatePage == \A i \in DOMAIN createCalls : createCalls[i].state # "ok"

\* A change event is a discrete event: React renders before the next one.
ChangeReward(value) ==
    /\ noAlert
    /\ onCreatePage
    /\ ~processedReward(value).ignored
    /\ formData' = [formData EXCEPT !.reward_amount = processedReward(value).n]
    /\ formView' = [formData |-> formData', loading |-> loading]
    /\ UNCHANGED <<loading, createCalls, alertMsg, dashboardVars, calc>>

ChangeTitle(value) ==
    /\ noAlert
    /\ onCreatePage
    /\ formData' = [formData EXCEPT !.title = value]
    /\ formView' = [formData |-> formData', loading |-> loading]
    /\ UNCHANGED <<loading, createCalls, alertMsg, dashboardVars, calc>>

ChangeDeadline(value) ==
    /\ noAlert
    /\ onCreatePage
    /\ formData' = [formData EXCEPT !.deadline = value]
    /\ formView' = [formData |-> formData', loading |-> loading]
    /\ UNCHANGED <<loading, createCalls, alertMsg, dashboardVars, calc>>

\* The submit button's disabled attribute, from the last render.
submitDisabled ==
    \/ formView.loading
    \/ trim(formView.formData.title) = ""
    \/ formView.formData.deadline = ""

MaxRewardAlert == "Reward amount cannot exceed 0.05 SOL"
MinRewardAlert == "Reward amount must be at least 0.01 SOL"

\* The validation with the lower limit left out.
rewardAlert_noMinimum(rewardAmount) ==
    IF rewardAmount > Sol005 THEN MaxRewardAlert ELSE "none"

\* if (rewardAmount > 0.05) {alert...; return}
\* if (rewardAmount < 0.01) {alert...; return}
rewardAlert(rewardAmount) ==
    IF rewardAmount > Sol005 THEN MaxRewardAlert
    ELSE IF rewardAmount < Sol001 THEN MinRewardAlert
    ELSE "none"

\* handleSubmit with setLoading(true) moved behind the await of
\* challengesApi.create.
handleSubmit_setLoadingLate ==
    IF formView.loading
    THEN UNCHANGED <<loading, createCalls, alertMsg>>
    ELSE IF formView.formData.deadline = ""
    THEN /\ alertMsg' = "Please select a deadline"
         /\ UNCHANGED <<loading, createCalls>>
    ELSE IF rewardAlert(formView.formData.reward_amount) # "none"
    THEN /\ alertMsg' = rewardAlert(formView.formData.reward_amount)
         /\ UNCHANGED <<loading, createCalls>>
    ELSE /\ Len(createCalls) < MaxCreates
         /\ createCalls' = Append(createCalls,
                [reward_amount |-> formView.formData.reward_amount,
                 state |-> "inflight"])
         /\ UNCHANGED <<loading, alertMsg>>

\* The synchronous part of handleSubmit, up to the await of
\* challengesApi.create; the wallet is connected and formData.reward_amount
\* is a number, as handleChange stores it.
handleSubmit ==
    IF formView.loading
    THEN UNCHANGED <<loading, createCalls, alertMsg>>
    ELSE IF formView.formData.deadline = ""
    THEN /\ alertMsg' = "Please select a deadline"
         /\ UNCHANGED <<loading, createCalls>>
    ELSE IF rewardAlert(formView.formData.reward_amount) # "none"
    THEN /\ alertMsg' = rewardAlert(formView.formData.reward_amount)
         /\ UNCHANGED <<loading, createCalls>>
    ELSE /\ Len(createCalls) < MaxCreates
         /\ loading' = TRUE
         /\ createCalls' = Append(createCalls,
                [reward_amount |-> formView.formData.reward_amount,
                 state |-> "inflight"])
         /\ UNCHANGED alertMsg

\* <form onSubmit={handleSubmit}>: the submit event comes from the submit
\* button, which must not be disabled.
SubmitForm ==
    /\ noAlert
    /\ onCreatePage
    /\ ~submitDisabled
    /\ handleSubmit
    /\ formView' = [formData |-> formData, loading |-> loading']
    /\ UNCHANGED <<formData, dashboardVars, calc>>

\* await challengesApi.create(...) returns (alert, navigate) or throws
\* (alert); finally setLoading(false).
CreateReturns(i) ==
    /\ noAlert
    /\ i \in DOMAIN createCalls
    /\ createCalls[i].state = "inflight"
    /\ \/ /\ createCalls' = [createCalls EXCEPT ![i].state = "ok"]
          /\ alertMsg' = "Challenge created successfully"
       \/ /\ createCalls' = [createCalls EXCEPT ![i].state = "error"]
          /\ alertMsg' = "Error creating challenge"
    /\ loading' = FALSE
    /\ UNCHANGED <<formData, formView, dashboardVars, calc>>

RenderCreate ==
    /\ noAlert
    /\ onCreatePage
    /\ formView # [formData |-> formData, loading |-> loading]
    /\ formView' = [formData |-> formData, loading |-> loading]
    /\ UNCHANGED <<formData, loading, createCalls, alertMsg, dashboardVars, calc>>

NextCreate ==
    \/ DismissAlert
    \/ RenderCreate
    \/ \E value \in RewardInputs : ChangeReward(value)
    \/ \E value \in TitleInputs : ChangeTitle(value)
    \/ \E value \in DeadlineInputs : ChangeDeadline(value)
    \/ SubmitForm
    \/ \E i \in 1..MaxCreates : CreateReturns(i)

SpecCreate == Init /\ [][NextCreate]_vars

\* ------------------------------------------------- the lamports conversion
\* The reward amounts the conversion is evaluated for: around 0 (negative
\* ones too), around 0.01 SOL and around 0.05 SOL, in steps of 1/SubLamport
\* lamport.
RewardAmounts ==
    {base + d : base \in {0, Sol001, Sol005}, d \in (0 - AmountSpread)..AmountSpread}

InitLamports ==
    /\ InitPages
    /\ calc \in {[rewardAmount |-> a, computed |-> FALSE, rewardLamports |-> 0] :
                    a \in RewardAmounts}

\* const rewardLamports = Math.floor(rewardAmount * LAMPORTS_PER_SOL)
ComputeRewardLamports ==
    /\ ~calc.computed
    /\ calc' = [calc EXCEPT !.computed = TRUE,
                            !.rewardLamports = rewardLamports(calc.rewardAmount)]
    /\ UNCHANGED <<dashboardVars, alertMsg, createVars>>

NextLamports == ComputeRewardLamports

SpecLamports == InitLamports /\ [][NextLamports]_vars

\* ---------------------------------------- TransactionModal, Progress Steps
\* Array.prototype.indexOf: the 0-based position of x in list, -1 if absent.
indexOf(list, x) ==
    IF \E i \in 1..Len(list) : list[i] = x
    THEN (CHOOSE i \in 1..Len(list) :
             list[i] = x /\ \A j \in 1..(i - 1) : list[j] # x) - 1
    ELSE 0 - 1

\* The steps that are mapped to rows of the progress list.
ProgressSteps == <<"pending", "signing", "sending", "confirming", "confirmed">>

\* The list in which isCompleted looks the status up.
CompletedOrder == <<"signing", "sending", "confirming", "confirmed">>

\* const isActive = step === stepStatus, for the row at 0-based index
isActive(index, stepStatus) == ProgressSteps[index + 1] = stepStatus

\* const isCompleted = [...].indexOf(stepStatus) > index
isCompleted(index, stepStatus) == indexOf(CompletedOrder, stepStatus) > index

\* ----------------------------------------------------------------------
\* Vocabulary of the properties
\* ----------------------------------------------------------------------
\* Flow f is outstanding: started, and neither 'confirmed' nor 'failed' yet.
Outstanding(f) ==
    flows[f].pc \in {"getLatestBlockhash", "signTransaction", "sendTransaction",
                     "confirmTransaction"}


Sent(f) == flows[f].signature # NoSig

Status == transactionModal.transaction.status

\* ----------------------------------------------------------------------
\* C1: while an approval flow for a submission is outstanding, no second
\* flow for the same submission id can be started (its Approve button cannot
\* be clicked), so at most one flow per submission id is outstanding.
\* ----------------------------------------------------------------------
C1_OneFlowPerSubmission ==
    /\ \A f \in Flows :
          Outstanding(f) => ~approveClickable(flows[f].submissionId)
    /\ \A f, g \in Flows :
          (f # g /\ Outstanding(f) /\ Outstanding(g))
             => flows[f].submissionId # flows[g].submissionId

\* ----------------------------------------------------------------------
\* C2: a transaction the network executed with an on-chain error never
\* takes its flow to 'confirmed' (the await of adminApi.approve) and the
\* backend never records its signature as the approved reward.
\* ----------------------------------------------------------------------
C2_OnChainErrorNotConfirmed ==
    \A f \in Flows :
        chain[f] = "executed_err"
           => /\ flows[f].pc # "approve"
              /\ ~(db[flows[f].submissionId].status = "approved"
                   /\ db[flows[f].submissionId].reward_tx_hash = flows[f].signature)

\* ----------------------------------------------------------------------
\* C3: once the transaction was submitted, a confirmation wait that throws
\* while the network has no record yet of the transaction (it is neither
\* executed nor failed) does not end the flow as 'failed'.
\* ----------------------------------------------------------------------
C3_VerificationTroubleNotFailure ==
    [][\A f \in Flows :
          (/\ flows[f].pc = "confirmTransaction"
           /\ chain[f] = "submitted"
           /\ flows'[f].pc = "done")
             => transactionModal'.transaction.status # "failed"]_vars

\* ----------------------------------------------------------------------
\* C4: when a flow that submitted a transaction ends, the backend record of
\* its submission has been updated and holds the receipt: it is no longer
\* 'pending' without the signature.
\* ----------------------------------------------------------------------
C4_OutcomeReconciled ==
    [][\A f \in Flows :
          (Sent(f) /\ flows[f].pc # "done" /\ flows'[f].pc = "done")
             => /\ db'[flows[f].submissionId].status # "pending"
                /\ db'[flows[f].submissionId].reward_tx_hash # NoSig]_vars

\* ----------------------------------------------------------------------
\* C5: the confirmation wait is bounded: a flow that waits for
\* confirmTransaction eventually leaves that wait, also when the node never
\* answers, and processingId is eventually released.
\* ----------------------------------------------------------------------
C5_ConfirmationWaitBounded ==
    \A f \in Flows :
        (flows[f].pc = "confirmTransaction")
           ~> (flows[f].pc \in {"approve", "done"})

\* ----------------------------------------------------------------------
\* C6: when the confirmation wait throws although the transaction executed
\* without error (the signature status the network holds has no error), the
\* flow's outcome is 'confirmed', not 'failed'.
\* ----------------------------------------------------------------------
C6_TimeoutNotProofOfFailure ==
    [][\A f \in Flows :
          (/\ flows[f].pc = "confirmTransaction"
           /\ chain[f] = "executed"
           /\ flows'[f].pc # "confirmTransaction")
             => /\ flows'[f].pc = "approve"
                /\ transactionModal'.transaction.status = "confirmed"]_vars

\* ----------------------------------------------------------------------
\* C7: when the signer rejects the signing request, the flow ends 'failed'
\* with the cancelled-by-user text; nothing was sent (no signature, the
\* network has no transaction of the flow), no confirmation call was made
\* and the backend record is untouched.
\* ----------------------------------------------------------------------
C7_SignerRejection ==
    [][\A f \in Flows :
          (/\ flows[f].pc = "signTransaction"
           /\ flows'[f].pc = "done"
           /\ consoleError' = UserRejectedMsg)
             => /\ transactionModal'.transaction.status = "failed"
                /\ transactionModal'.transaction.error = CancelledText
                /\ flows'[f].signature = NoSig
                /\ chain'[f] = "none"
                /\ callsMade(flows[f].pc) \cap {"sendTransaction", "confirmTransaction",
                                                "approve"} = {}
                /\ db' = db
                /\ processingId' = Null]_vars

C7_Witness ==
    /\ consoleError = UserRejectedMsg
    /\ Status = "failed"
    /\ transactionModal.transaction.error = CancelledText
    /\ \E f \in Flows : flows[f].pc = "done" /\ ~Sent(f) /\ chain[f] = "none"

\* ----------------------------------------------------------------------
\* C8: the payer's balance is checked before signing: a flow whose transfer
\* plus fee exceeds the balance when the transaction has been built does not
\* go on to the signer.
\* ----------------------------------------------------------------------
C8_BalancePreCheck ==
    [][\A f \in Flows :
          (/\ flows[f].pc = "getLatestBlockhash"
           /\ balance < flows[f].lamports + NetworkFee)
             => flows'[f].pc # "signTransaction"]_vars

\* ----------------------------------------------------------------------
\* C9: a reward whose amount is not greater than zero is rejected before any
\* network round-trip: no flow with such an amount ever waits for the
\* blockhash, the signer, the send or anything after.
\* ----------------------------------------------------------------------
C9_NonPositiveAmountRejected ==
    \A f \in Flows :
        flows[f].pc # "idle" => flows[f].rewardAmount > 0

\* ----------------------------------------------------------------------
\* C10: handleApprove for a submission whose contributor is the moderator
\* wallet is rejected before any network call: no flow exists for such a
\* submission, and the call that raises the alert leaves processingId, the
\* transaction modal, the flows, the network and the backend as they were.
\* ----------------------------------------------------------------------
C10_SelfTransferRejected ==
    /\ [](\A f \in Flows :
            flows[f].pc # "idle"
               => contributor_address(flows[f].submissionId) # Moderator)
    /\ [][(alertMsg' = OwnSubmissionAlert /\ alertMsg # OwnSubmissionAlert)
            => UNCHANGED <<processingId, transactionModal, flows, nflows, chain,
                           balance, db, reloadQueued>>]_vars

C10_Witness ==
    /\ alertMsg = OwnSubmissionAlert
    /\ nflows > 0
    /\ processingId # Null

\* ----------------------------------------------------------------------
\* C11: the backend record is marked approved only after the transfer was
\* confirmed on the network: a flow waits in adminApi.approve only when its
\* own transaction was sent and executed successfully, and a record that is
\* approved carries the signature of such a flow for that submission.
\* ----------------------------------------------------------------------
C11_ApprovedOnlyAfterConfirmed ==
    /\ \A f \in Flows :
          flows[f].pc = "approve" => (Sent(f) /\ chain[f] = "executed")
    /\ \A s \in Submissions :
          db[s].status = "approved"
             => \E f \in Flows :
                   /\ flows[f].submissionId = s
                   /\ flows[f].signature = db[s].reward_tx_hash
                   /\ Sent(f)
                   /\ chain[f] = "executed"

\* ----------------------------------------------------------------------
\* C12: from the start of the first approval flow until a second one is
\* started, the status of the transaction changes only along signing ->
\* sending -> confirming -> confirmed (the flow starts by setting 'pending'
\* and then 'signing' in one go), or from signing, sending or confirming to
\* failed; once confirmed or failed it does not change.
\* ----------------------------------------------------------------------
C12_StatusMovesForward ==
    [][(/\ nflows = 1
        /\ nflows' = 1
        /\ Status' # Status)
          => <<Status, Status'>> \in
                {<<"signing", "sending">>, <<"sending", "confirming">>,
                 <<"confirming", "confirmed">>, <<"signing", "failed">>,
                 <<"sending", "failed">>, <<"confirming", "failed">>}]_vars

\* ----------------------------------------------------------------------
\* C13: the await of getLatestBlockhash ends in one of two ways: the flow
\* goes on to the signer and nothing was logged, or the fetch failed and the
\* flow ends 'failed' with processingId cleared, the signer, the send, the
\* confirmation and adminApi.approve not called, no signature, nothing on
\* the network, the balance and the backend record as they were.
\* ----------------------------------------------------------------------
C13_BlockhashFailureNoEffects ==
    [][\A f \in Flows :
          (flows[f].pc = "getLatestBlockhash" /\ flows'[f] # flows[f])
             => \/ /\ flows'[f].pc = "signTransaction"
                   /\ consoleError' = consoleError
                \/ /\ flows'[f].pc = "done"
                   /\ consoleError' = BlockhashErrorMsg
                   /\ transactionModal'.transaction.status = "failed"
                   /\ processingId' = Null
                   /\ callsMade(flows[f].pc) = {"getLatestBlockhash"}
                   /\ flows'[f].signature = NoSig
                   /\ chain' = chain
                   /\ chain[f] = "none"
                   /\ balance' = balance
                   /\ db' = db]_vars

C13_Witness ==
    /\ consoleError = BlockhashErrorMsg
    /\ Status = "failed"
    /\ transactionModal.transaction.error = BlockhashErrorMsg
    /\ \E f \in Flows :
          /\ flows[f].pc = "done"
          /\ ~Sent(f)
          /\ chain[f] = "none"
          /\ db[flows[f].submissionId].status = "pending"
          /\ balance = InitBalance

C17_InsufficientFundsAtSubmission ==
    /\ [][\A f \in Flows :
            (/\ flows[f].pc = "sendTransaction"
             /\ flows'[f].pc = "done"
             /\ consoleError' \in {PreflightFundsMsg, PreflightLamportsMsg})
               => /\ transactionModal'.transaction.status = "failed"
                  /\ transactionModal'.transaction.error = InsufficientText
                  /\ InsufficientText \notin {CancelledText, consoleError'}]_vars
    /\ [][(/\ transactionModal'.transaction.error = InsufficientText
           /\ transactionModal.transaction.error # InsufficientText)
            => \E f \in Flows :
                  /\ flows[f].pc = "sendTransaction"
                  /\ "signTransaction" \in callsMade(flows[f].pc)
                  /\ flows'[f].pc = "done"]_vars

\* ----------------------------------------------------------------------
\* C18: in every reachable state in which the transaction's status is
\* 'failed', its error is a string (not undefined) and is not empty, so the
\* modal's error box (status === 'failed' && transaction.error) is shown.
\* ----------------------------------------------------------------------
C18_FailureHasReason ==
    Status = "failed"
       => /\ transactionModal.transaction.error # Undefined
          /\ transactionModal.transaction.error # <<>>

C18_Witness ==
    /\ Status = "failed"
    /\ consoleError = SendErrorMsg
    /\ transactionModal.transaction.error = UnknownError

C19_RewardWithinLimits ==
    \A i \in DOMAIN createCalls :
        /\ createCalls[i].reward_amount >= Sol001
        /\ createCalls[i].reward_amount <= Sol005

C19_Witness ==
    /\ Len(createCalls) = 1
    /\ createCalls[1].reward_amount = Sol001
    /\ createCalls[1].state = "error"
    /\ formData.reward_amount = 0
    /\ alertMsg = MinRewardAlert

\* ----------------------------------------------------------------------
\* C20: at most one challengesApi.create request is in flight at any time;
\* a second one can only be made after the first has returned.
\* ----------------------------------------------------------------------
C20_NoDoubleSubmission ==
    Cardinality({i \in DOMAIN createCalls : createCalls[i].state = "inflight"}) <= 1

C20_Witness ==
    /\ Len(createCalls) = 2
    /\ createCalls[1].state = "error"
    /\ createCalls[2].state = "inflight"
    /\ loading
    /\ submitDisabled
    /\ trim(formView.formData.title) # ""
    /\ formView.formData.deadline # ""

\* ----------------------------------------------------------------------
\* C21: the step in which confirmTransaction resolves sets the status to
\* 'confirmed' and keeps the signature the modal holds; the step in which
\* adminApi.approve returns, and in particular the one in which it failed
\* (the backend record is as before), leaves the whole modal state and the
\* error log as they were, so a database error never sets 'failed'.
\* ----------------------------------------------------------------------
C21_DatabaseErrorKeepsConfirmed ==
    [][\A f \in Flows :
          /\ (flows[f].pc = "confirmTransaction" /\ flows'[f].pc = "approve")
                => /\ transactionModal'.transaction.status = "confirmed"
                   /\ transactionModal'.transaction.signature =
                         transactionModal.transaction.signature
          /\ (flows[f].pc = "approve" /\ flows'[f].pc = "done")
                => /\ transactionModal' = transactionModal
                   /\ consoleError' = consoleError
                   /\ flows'[f].signature = flows[f].signature]_vars

C21_Witness ==
    /\ Status = "confirmed"
    /\ \E f \in Flows :
          /\ flows[f].pc = "done"
          /\ chain[f] = "executed"
          /\ transactionModal.transaction.signature = flows[f].signature
          /\ Sent(f)
          /\ db[flows[f].submissionId].status = "pending"

\* ----------------------------------------------------------------------
\* C22: at most one flow per submission ever gets a transaction onto the
\* network, and once a flow for a submission has ended with its transfer
\* executed, no handleApprove for the same submission starts again, whether
\* or not the backend recorded the approval and the list was reloaded.
\* ----------------------------------------------------------------------
C22_OneTransferPerSubmission ==
    /\ [](\A f, g \in Flows :
            (f # g /\ Sent(f) /\ Sent(g))
               => flows[f].submissionId # flows[g].submissionId)
    /\ [][\A f, g \in Flows :
            (/\ flows[f].pc = "done"
             /\ Sent(f)
             /\ chain[f] = "executed"
             /\ flows[g].pc = "idle")
               => flows'[g].submissionId # flows[f].submissionId]_vars

\* ----------------------------------------------------------------------
\* C23: the signature in the modal is the signature of a flow for the
\* submission whose contributor is the modal's toAddress, and a flow's
\* continuation changes the modal's transaction only while the modal holds
\* that flow's own toAddress and amount.
\* ----------------------------------------------------------------------
C23_ModalBelongsToOneFlow ==
    /\ [](transactionModal.transaction.signature # NoSig
            => \E f \in Flows :
                  /\ flows[f].signature = transactionModal.transaction.signature
                  /\ contributor_address(flows[f].submissionId) =
                        transactionModal.transaction.toAddress)
    /\ [][\A f \in Flows :
            (/\ flows[f].pc \notin {"idle", "done"}
             /\ flows'[f].pc # flows[f].pc
             /\ transactionModal'.transaction # transactionModal.transaction)
               => /\ transactionModal.transaction.toAddress =
                        contributor_address(flows[f].submissionId)
                  /\ transactionModal.transaction.amount = flows[f].rewardAmount]_vars

\* ----------------------------------------------------------------------
\* C24: while a handleApprove invocation has not ended, processingId is the
\* id of its submission; when none is under way, processingId is null.
\* ----------------------------------------------------------------------
C24_ProcessingIdTracksFlow ==
    /\ \A f \in Flows :
          flows[f].pc \notin {"idle", "done"} => processingId = flows[f].submissionId
    /\ (\A f \in Flows : flows[f].pc \in {"idle", "done"}) => processingId = Null

\* ----------------------------------------------------------------------
\* C25: as long as at most one flow has been started, the modal has no
\* signature in the states pending, signing and sending, has one in the
\* states confirming and confirmed, and in the state failed has one exactly
\* when the flow's sendTransaction had returned; and the step that starts a
\* flow leaves the modal without signature and without error.
\* ----------------------------------------------------------------------
C25_SignatureSetBySend ==
    /\ [](nflows <= 1
            => /\ Status \in {"pending", "signing", "sending"}
                     => transactionModal.transaction.signature = NoSig
               /\ Status \in {"confirming", "confirmed"}
                     => transactionModal.transaction.signature # NoSig
               /\ Status = "failed"
                     => (transactionModal.transaction.signature # NoSig
                            <=> \E f \in Flows : Sent(f)))
    /\ [][nflows' # nflows
            => /\ transactionModal'.transaction.signature = NoSig
               /\ transactionModal'.transaction.error = Undefined]_vars

\* ----------------------------------------------------------------------
\* C26: the step that closes the modal changes isOpen only: the transaction
\* it leaves in the state, with its status, signature and error, is the one
\* the state held before, that is the one the flow wrote last.
\* ----------------------------------------------------------------------
C26_CloseChangesOnlyIsOpen ==
    [][(transactionModal.isOpen /\ ~transactionModal'.isOpen)
          => transactionModal'.transaction = transactionModal.transaction]_vars

\* ----------------------------------------------------------------------
\* C27: for the transaction the modal was rendered with, when its status is
\* signing, sending, confirming or confirmed, the row of that status is
\* active and every row before it is completed; when its status is failed,
\* no row is active.
\* ----------------------------------------------------------------------
C27_ProgressList ==
    LET stepStatus == view.transactionModal.transaction.status
    IN  /\ stepStatus \in {"signing", "sending", "confirming", "confirmed"}
              => /\ isActive(indexOf(ProgressSteps, stepStatus), stepStatus)
                 /\ \A index \in 0..(indexOf(ProgressSteps, stepStatus) - 1) :
                       isCompleted(index, stepStatus)
        /\ stepStatus = "failed"
              => \A index \in 0..(Len(ProgressSteps) - 1) : ~isActive(index, stepStatus)

====
